---- MODULE Spec2Model ----
(***************************************************************************)
(* Model of src/src/flatFieldCorrectChunkExposure.cc: the Flat Field       *)
(* Correct Chunk Exposure sub-stage of the Instrument Signature Removal    *)
(* stage.  One action, Call, runs the function once on the Chunk Exposure, *)
(* the Master Flat Field Chunk Exposure and the two Policy objects.  The   *)
(* function body is translated statement by statement; every stage is an   *)
(* operator that says whether control leaves the function in it.           *)
(***************************************************************************)
EXTENDS Integers, Sequences, FiniteSets, TLC

VARIABLES
    chunkExposure,        \* the Chunk Exposure: cols, rows, pix, mask, meta
    masterChunkExposure,  \* the Master Flat Field Chunk Exposure
    isrPolicy,            \* isrPolicy.flatPolicy: chunkType, flatFieldScale, stretchFactor
    datasetPolicy,        \* datasetPolicy: normalizeKey
    outcome,              \* how the last call left the function
    trace,                \* metadata lookups and pixel accesses of the last call
    entry,                \* the two Exposures as the last call received them
    returnedBefore        \* some call before the last one ended without an exception

vars == <<chunkExposure, masterChunkExposure, isrPolicy, datasetPolicy,
          outcome, trace, entry, returnedBefore>>

---------------------------------------------------------------------------
(* Bounds of the model.                                                    *)

MaxCols == 2

MaxRows == 2

MaxId == 2

MaxPix == 2

---------------------------------------------------------------------------
(* DataProperty metadata.  A PtrType is <<>> when null and <<value>> when  *)
(* it points at a property holding value.                                  *)

NullPtr == <<>>

IsSet(ptr) == Len(ptr) > 0

Value(ptr) == ptr[1]

MetaKeys == {"ISR_FLATCOR", "AMPID", "CCDID", "FILTER", "IMRED_NF"}

findUnique(meta, key) == meta[key]

addProperty(meta, key, value) == [meta EXCEPT ![key] = <<value>>]

---------------------------------------------------------------------------
(* Pixel values.  A double is the fraction <<n, d>> in lowest terms with   *)
(* d >= 0: d > 0 is a finite value, <<1, 0>> and <<-1, 0>> are +Inf and    *)
(* -Inf, <<0, 0>> is NaN, which is what IEEE division by zero produces.    *)

Abs(x) == IF x < 0 THEN -x ELSE x

Sign(x) == IF x < 0 THEN -1 ELSE IF x > 0 THEN 1 ELSE 0

RECURSIVE Gcd(_, _)
Gcd(a, b) == IF b = 0 THEN a ELSE Gcd(b, a % b)

Frac(n, d) ==
    IF d = 0 THEN <<Sign(n), 0>>
    ELSE LET g == Gcd(Abs(n), Abs(d))
         IN  <<(Sign(d) * n) \div g, Abs(d) \div g>>

Double(v) == <<v, 1>>

IsFinite(x) == x[2] > 0

IsNaN(x) == x = <<0, 0>>

Mul(x, y) == Frac(x[1] * y[1], x[2] * y[2])

Div(x, y) ==
    IF IsNaN(x) \/ IsNaN(y) THEN <<0, 0>>
    ELSE IF ~IsFinite(x) /\ ~IsFinite(y) THEN <<0, 0>>
    ELSE IF ~IsFinite(y) THEN <<0, 1>>
    ELSE IF ~IsFinite(x) THEN <<x[1] * (IF y[1] < 0 THEN -1 ELSE 1), 0>>
    ELSE Frac(x[1] * y[2], x[2] * y[1])

Add(x, y) ==
    IF IsFinite(x) /\ IsFinite(y) THEN Frac(x[1] * y[2] + y[1] * x[2], x[2] * y[2])
    ELSE IF IsNaN(x) \/ IsNaN(y) THEN <<0, 0>>
    ELSE IF ~IsFinite(x) /\ ~IsFinite(y) /\ x # y THEN <<0, 0>>
    ELSE IF ~IsFinite(x) THEN x ELSE y

---------------------------------------------------------------------------
(* Exposure arithmetic used by the function: operator*= and operator/=     *)
(* with a scalar, operator/= with an Exposure (element-wise).  No          *)
(* statement of the function writes a mask.                                *)

ScaleBy(exposure, c) ==
    [exposure EXCEPT !.pix = [i \in DOMAIN exposure.pix |-> Mul(exposure.pix[i], c)]]

DivideBy(exposure, c) ==
    [exposure EXCEPT !.pix = [i \in DOMAIN exposure.pix |-> Div(exposure.pix[i], c)]]

DivideByExposure(exposure, other) ==
    [exposure EXCEPT !.pix =
        [i \in DOMAIN exposure.pix |-> Div(exposure.pix[i], other.pix[i])]]

---------------------------------------------------------------------------
(* How a call leaves the function: an exception thrown at a line, a return *)
(* statement at a line, or the end of the body.  Running is the outcome of *)
(* a frame that is still inside the function.                              *)

Running == [kind |-> "none", name |-> "", line |-> 0]

Throw(name, line) == [kind |-> "throw", name |-> name, line |-> line]

Return(name, line) == [kind |-> "return", name |-> name, line |-> line]

(* A frame holds the function's view of its arguments and its locals.      *)
Frame(chunk, master) ==
    [chunk |-> chunk, master |-> master, trace |-> <<>>, outcome |-> Running,
     id |-> 0, mid |-> 0, filter |-> 0, mfilter |-> 0]

Leave(f, how) == [f EXCEPT !.outcome = how]

Log(f, what, key) == [f EXCEPT !.trace = Append(@, <<what, key>>)]

(* Control is still inside the function: the next statement runs only     *)
(* then.                                                                   *)
StillIn(f) == f.outcome.kind = "none"

---------------------------------------------------------------------------
(* CheckNotRun with the marker looked up in the master's metadata.         *)
CheckNotRunInMaster(f) ==
    LET g == Log(f, "masterChunkMetadata", "ISR_FLATCOR")
        isrFlatField == findUnique(g.master.meta, "ISR_FLATCOR")
    IN  IF IsSet(isrFlatField) THEN Leave(g, Throw("Runtime", 94)) ELSE g

(* Lines 89-95: the sub-stage has not been run on this Chunk Exposure.     *)

CheckNotRun(f) ==
    LET g == Log(f, "chunkMetadata", "ISR_FLATCOR")
        isrFlatField == findUnique(g.chunk.meta, "ISR_FLATCOR")
    IN  IF IsSet(isrFlatField) THEN Leave(g, Throw("Runtime", 94)) ELSE g

(* CheckSameSize with the two comparisons joined by && instead of ||.      *)
CheckSameSizeBothDiffer(f) ==
    IF f.chunk.cols # f.master.cols /\ f.chunk.rows # f.master.rows
    THEN Leave(f, Throw("LengthError", 107))
    ELSE f

(* Lines 97-108: both Exposures are the same size.                         *)

CheckSameSize(f) ==
    LET numCols == f.chunk.cols
        numRows == f.chunk.rows
        mnumCols == f.master.cols
        mnumRows == f.master.rows
    IN  IF numCols # mnumCols \/ numRows # mnumRows
        THEN Leave(f, Throw("LengthError", 107))
        ELSE f

(* Lines 115 and 138 assign a string literal to chunkType and test the     *)
(* assigned value; a non-empty string tests true.                          *)
Truthy(str) == str # ""

(* Lines 116-123 (AMPID) and 139-146 (CCDID): the id of the Chunk          *)
(* Exposure; both arms of the if statement leave the function.             *)
GetChunkId(f, key, retLine, throwLine) ==
    LET g == Log(f, "chunkMetadata", key)
        field == findUnique(g.chunk.meta, key)
    IN  IF IsSet(field)
        THEN Leave([g EXCEPT !.id = Value(field)],
                   Return(IF key = "AMPID" THEN "ampid" ELSE "ccdid", retLine))
        ELSE Leave(g, Throw("NotFound", throwLine))

(* Lines 125-132 (AMPID) and 148-155 (CCDID): the id of the Master Flat    *)
(* Field Chunk Exposure.                                                   *)
GetMasterId(f, key, retLine, throwLine) ==
    LET g == Log(f, "masterChunkMetadata", key)
        field == findUnique(g.master.meta, key)
    IN  IF IsSet(field)
        THEN Leave([g EXCEPT !.mid = Value(field)],
                   Return(IF key = "AMPID" THEN "mampid" ELSE "mccdid", retLine))
        ELSE Leave(g, Throw("NotFound", throwLine))

(* Lines 134-136 and 157-159.                                              *)
CompareIds(f, throwLine) ==
    IF f.id # f.mid THEN Leave(f, Throw("RangeError", throwLine)) ELSE f

(* Lines 110-163: both Exposures are derived from the same pixels.         *)
CheckSamePixels(f, flatPolicy) ==
    IF Truthy("amp")
    THEN LET g1 == GetChunkId(f, "AMPID", 120, 122)
             g2 == IF StillIn(g1) THEN GetMasterId(g1, "AMPID", 129, 131) ELSE g1
         IN  IF StillIn(g2) THEN CompareIds(g2, 135) ELSE g2
    ELSE IF Truthy("ccd")
    THEN LET g1 == GetChunkId(f, "CCDID", 143, 145)
             g2 == IF StillIn(g1) THEN GetMasterId(g1, "CCDID", 152, 154) ELSE g1
         IN  IF StillIn(g2) THEN CompareIds(g2, 158) ELSE g2
    ELSE f

(* Lines 168-175: FILTER of the Chunk Exposure.                            *)
GetChunkFilter(f) ==
    LET g == Log(f, "chunkMetadata", "FILTER")
        filterField == findUnique(g.chunk.meta, "FILTER")
    IN  IF IsSet(filterField)
        THEN [g EXCEPT !.filter = Value(filterField)]
        ELSE Leave(g, Throw("NotFound", 174))

(* Lines 181-202: FILTER of the Master Flat Field Chunk Exposure.  The     *)
(* property holds an int, so the any_cast to std::string of line 198       *)
(* throws before the return of line 199.                                   *)
GetMasterFilter(f) ==
    LET g == Log(f, "masterChunkMetadata", "FILTER")
        mfilterField == findUnique(g.master.meta, "FILTER")
    IN  IF IsSet(mfilterField)
        THEN Leave([g EXCEPT !.mfilter = Value(mfilterField)],
                   Throw("bad_any_cast", 198))
        ELSE Leave(g, Throw("NotFound", 187))

(* Lines 204-206.                                                          *)
CompareFilters(f) ==
    IF f.filter # f.mfilter THEN Leave(f, Throw("DomainError", 205)) ELSE f

(* Lines 165-206: both Exposures are taken in the same filter.             *)
CheckSameFilter(f) ==
    LET g1 == GetChunkFilter(f)
        g2 == IF StillIn(g1) THEN GetMasterFilter(g1) ELSE g1
    IN  IF StillIn(g2) THEN CompareFilters(g2) ELSE g2

RECURSIVE SumPix(_, _)
SumPix(pix, k) == IF k = 0 THEN Double(0) ELSE Add(SumPix(pix, k - 1), pix[k])

(* Lines 230-246: the mean of all pixels of the Master Flat Field Chunk    *)
(* Exposure.                                                               *)
Mean(exposure) ==
    LET n == exposure.cols * exposure.rows
        sum == SumPix(exposure.pix, n)
    IN  Div(sum, Double(n))

(* Lines 209-262: normalize the Master Flat Field Chunk Exposure unless    *)
(* the normalizeKey property is found; line 217 looks it up in             *)
(* chunkMetadata.  sigma (lines 248-258) is computed and not used.         *)
Normalize(f, dsPolicy) ==
    LET normalizeKey == dsPolicy.normalizeKey
        g == Log(f, "chunkMetadata", normalizeKey)
        isrNormalize == findUnique(g.chunk.meta, normalizeKey)
    IN  IF IsSet(isrNormalize)
        THEN g
        ELSE LET h == Log(g, "masterChunkExposure", "read pixels")
                 mu == Mean(h.master)
             IN  Log([h EXCEPT !.master = DivideBy(h.master, mu)],
                     "masterChunkExposure", "write pixels")

(* Lines 265-282: scale the master and divide the Chunk Exposure by it.    *)
Correct(f, flatPolicy) ==
    LET flatFieldScale == flatPolicy.flatFieldScale
        stretchFactor == flatPolicy.stretchFactor
        g == Log([f EXCEPT !.master = ScaleBy(f.master, Double(stretchFactor))],
                 "masterChunkExposure", "write pixels")
        h == IF flatFieldScale # 0
             THEN Log([g EXCEPT !.master = ScaleBy(g.master, Double(flatFieldScale))],
                      "masterChunkExposure", "write pixels")
             ELSE g
    IN  Log([h EXCEPT !.chunk = DivideByExposure(h.chunk, h.master)],
            "chunkExposure", "write pixels")

(* Lines 284-294: record the provenance and fall off the end of the body.  *)
RecordProvenance(f) ==
    Leave([f EXCEPT !.chunk.meta = addProperty(@, "ISR_FLATCOR", "Complete")],
          Return("end", 294))

(* Lines 72-294: the whole function.                                       *)
flatFieldCorrectChunkExposure(chunk, master, isr, dataset) ==
    LET flatPolicy == isr.flatPolicy
        f0 == Frame(chunk, master)
        f1 == CheckNotRun(f0)
        f2 == IF StillIn(f1) THEN CheckSameSize(f1) ELSE f1
        f3 == IF StillIn(f2) THEN CheckSamePixels(f2, flatPolicy) ELSE f2
        f4 == IF StillIn(f3) THEN CheckSameFilter(f3) ELSE f3
        f5 == IF StillIn(f4) THEN Normalize(f4, dataset) ELSE f4
        f6 == IF StillIn(f5) THEN Correct(f5, flatPolicy) ELSE f5
    IN  IF StillIn(f6) THEN RecordProvenance(f6) ELSE f6

---------------------------------------------------------------------------
(* The arguments of a call.                                                *)

Opt(values) == {NullPtr} \cup {<<v>> : v \in values}

Metadata(flatcor, ampid, ccdid, filter, norm) ==
    [k \in MetaKeys |->
        CASE k = "ISR_FLATCOR" -> flatcor
          [] k = "AMPID" -> ampid
          [] k = "CCDID" -> ccdid
          [] k = "FILTER" -> filter
          [] k = "IMRED_NF" -> norm]

(* An Exposure of cols x rows pixels: every pixel holds value, but the     *)
(* first holds 0 when dead is set.                                         *)
Exposure(cols, rows, value, dead, meta) ==
    [cols |-> cols, rows |-> rows,
     pix  |-> [i \in 1..(cols * rows) |-> IF dead /\ i = 1 THEN Double(0) ELSE Double(value)],
     mask |-> [i \in 1..(cols * rows) |-> 0],
     meta |-> meta]

Policy(chunkType, flatFieldScale, stretchFactor) ==
    [flatPolicy |-> [chunkType |-> chunkType, flatFieldScale |-> flatFieldScale,
                     stretchFactor |-> stretchFactor]]

ChunkTypes == {"amp", "ccd", "raft"}

NotCalled == [kind |-> "init", name |-> "", line |-> 0]

(* Inputs that exercise the validation: the metadata of both Exposures,    *)
(* their sizes and chunkType vary.                                         *)
InitValidation ==
    \E full \in BOOLEAN, mc \in 1..MaxCols, mr \in 1..MaxRows,
       flatcor \in Opt({"Complete"}), ampid \in Opt({1}), ccdid \in Opt({1}),
       filter \in Opt({1}),
       mampid \in Opt(1..MaxId), mccdid \in Opt(1..MaxId), mfilter \in Opt(1..MaxId),
       chunkType \in ChunkTypes :
        /\ chunkExposure =
             Exposure(IF full THEN MaxCols ELSE 1, IF full THEN MaxRows ELSE 1, 1, FALSE,
                      Metadata(flatcor, ampid, ccdid, filter, NullPtr))
        /\ masterChunkExposure =
             Exposure(mc, mr, 1, FALSE, Metadata(NullPtr, mampid, mccdid, mfilter, NullPtr))
        /\ isrPolicy = Policy(chunkType, 0, 1)

(* Inputs that exercise the arithmetic: the ids and sizes agree; the       *)
(* pixels, the normalization and correction markers and the scale factors  *)
(* vary.                                                                   *)
InitArithmetic ==
    \E c \in 1..MaxCols, r \in 1..MaxRows,
       flatcor \in Opt({"Complete"}), norm \in Opt({1}), mnorm \in Opt({1}),
       s \in 1..MaxPix, v \in 0..MaxPix, dead \in BOOLEAN,
       chunkType \in ChunkTypes, flatFieldScale \in {0, 2}, stretchFactor \in {1, 2} :
        /\ chunkExposure =
             Exposure(c, r, s, FALSE, Metadata(flatcor, <<1>>, <<1>>, <<1>>, norm))
        /\ masterChunkExposure =
             Exposure(c, r, v, dead, Metadata(NullPtr, <<1>>, <<1>>, <<1>>, mnorm))
        /\ isrPolicy = Policy(chunkType, flatFieldScale, stretchFactor)

Init ==
    /\ InitValidation \/ InitArithmetic
    /\ datasetPolicy = [normalizeKey |-> "IMRED_NF"]
    /\ outcome = NotCalled
    /\ trace = <<>>
    /\ entry = [chunk |-> chunkExposure, master |-> masterChunkExposure]
    /\ returnedBefore = FALSE

(* One call of the function on the two Exposures.  Both are changed in     *)
(* place, so what the body did before an exception stays done.             *)
Call ==
    LET f == flatFieldCorrectChunkExposure(chunkExposure, masterChunkExposure,
                                           isrPolicy, datasetPolicy)
    IN  /\ entry' = [chunk |-> chunkExposure, master |-> masterChunkExposure]
        /\ chunkExposure' = f.chunk
        /\ masterChunkExposure' = f.master
        /\ outcome' = f.outcome
        /\ trace' = f.trace
        /\ returnedBefore' = (returnedBefore \/ outcome.kind = "return")
        /\ UNCHANGED <<isrPolicy, datasetPolicy>>

Next == Call

Spec == Init /\ [][Next]_vars

---------------------------------------------------------------------------
(* Vocabulary of the properties.  entry holds the Exposures as the last    *)
(* call received them; chunkExposure and masterChunkExposure hold them as  *)
(* it left them.                                                           *)

Called == outcome.kind # "init"

Marked(exposure) == IsSet(exposure.meta["ISR_FLATCOR"])

SameSize(a, b) == a.cols = b.cols /\ a.rows = b.rows

NothingChanged == chunkExposure = entry.chunk /\ masterChunkExposure = entry.master

ChunkType == isrPolicy.flatPolicy.chunkType

LookedUp(key) == \E i \in DOMAIN trace : trace[i][2] = key

TouchedPixels ==
    \E i \in DOMAIN trace : trace[i][1] \in {"chunkExposure", "masterChunkExposure"}

BothCarry(key) == IsSet(entry.chunk.meta[key]) /\ IsSet(entry.master.meta[key])

Differ(key) == entry.chunk.meta[key] # entry.master.meta[key]

(* The region check as section 4.1 of the specification states it.         *)
RegionAgrees ==
    CASE ChunkType = "amp" -> BothCarry("AMPID") /\ ~Differ("AMPID")
      [] ChunkType = "ccd" -> BothCarry("CCDID") /\ ~Differ("CCDID")
      [] OTHER -> TRUE

(* The last call received arguments that pass the marker, dimension and    *)
(* region checks.                                                          *)
PassedToFilter ==
    Called /\ ~Marked(entry.chunk) /\ SameSize(entry.chunk, entry.master) /\ RegionAgrees

(* ... and the filter check as well.                                       *)
PassedValidation == PassedToFilter /\ BothCarry("FILTER") /\ ~Differ("FILTER")

MasterNormalized == IsSet(entry.master.meta[datasetPolicy.normalizeKey])

IsZero(x) == x = Double(0)

AllFinite(exposure) == \A i \in DOMAIN exposure.pix : IsFinite(exposure.pix[i])

(* The master flat the specification's sections 4.2 and 4.3 describe:      *)
(* normalized unless the master carries the marker, then scaled.           *)
DescribedMaster ==
    LET fp == isrPolicy.flatPolicy
        n == IF MasterNormalized THEN entry.master
             ELSE DivideBy(entry.master, Mean(entry.master))
        t == ScaleBy(n, Double(fp.stretchFactor))
    IN  IF fp.flatFieldScale # 0 THEN ScaleBy(t, Double(fp.flatFieldScale)) ELSE t

---------------------------------------------------------------------------
(* C1: a call on a Chunk Exposure whose metadata already holds             *)
(* ISR_FLATCOR throws Runtime (line 94) and leaves the pixels, mask and    *)
(* metadata of both Exposures as they were.                                *)
C1_AlreadyProcessed ==
    (Called /\ Marked(entry.chunk)) =>
        (outcome = Throw("Runtime", 94) /\ NothingChanged)

C1_Witness ==
    /\ Called /\ Marked(entry.chunk) /\ outcome.name = "Runtime"
    /\ Len(entry.chunk.pix) > 1

(* C2: a call on an unmarked Chunk Exposure whose size differs from the    *)
(* master's in columns or in rows throws LengthError (line 107) with no    *)
(* pixel of either Exposure read or written and with no lookup of AMPID,   *)
(* CCDID or FILTER.                                                        *)
C2_DimensionMismatch ==
    (Called /\ ~Marked(entry.chunk) /\ ~SameSize(entry.chunk, entry.master)) =>
        /\ outcome = Throw("LengthError", 107)
        /\ ~TouchedPixels
        /\ ~LookedUp("AMPID") /\ ~LookedUp("CCDID") /\ ~LookedUp("FILTER")
        /\ NothingChanged

C2_Witness ==
    /\ Called /\ ~Marked(entry.chunk) /\ outcome.name = "LengthError"
    /\ entry.chunk.cols = entry.master.cols
    /\ entry.chunk.rows # entry.master.rows

(* C3: with chunkType "amp", an unmarked Chunk Exposure and equal sizes,   *)
(* differing AMPID values end the call with RangeError, and equal AMPID    *)
(* values let the call go on past the region check (lines 110-163).        *)
C3_AmpRegionCheck ==
    (/\ Called /\ ~Marked(entry.chunk) /\ SameSize(entry.chunk, entry.master)
     /\ ChunkType = "amp" /\ BothCarry("AMPID")) =>
        IF Differ("AMPID")
        THEN outcome.kind = "throw" /\ outcome.name = "RangeError"
        ELSE outcome.line \notin 110..163

(* C4: a call that passes the marker, dimension and region checks with     *)
(* differing FILTER values ends with DomainError and unchanged pixels;     *)
(* with equal FILTER values it goes on to the normalization.               *)
C4_FilterCheck ==
    (PassedToFilter /\ BothCarry("FILTER")) =>
        IF Differ("FILTER")
        THEN /\ outcome.kind = "throw" /\ outcome.name = "DomainError"
             /\ chunkExposure.pix = entry.chunk.pix
             /\ masterChunkExposure.pix = entry.master.pix
        ELSE LookedUp(datasetPolicy.normalizeKey)

(* C5: a call that passes validation with an unnormalized master whose     *)
(* pixel mean is zero ends with DegenerateFlat, and no pixel of either     *)
(* Exposure becomes NaN or Inf.                                            *)
C5_DegenerateFlat ==
    (PassedValidation /\ ~MasterNormalized /\ IsZero(Mean(entry.master))) =>
        /\ outcome.kind = "throw" /\ outcome.name = "DegenerateFlat"
        /\ AllFinite(chunkExposure) /\ AllFinite(masterChunkExposure)

(* C6: ISR_FLATCOR is added by exactly the calls that end without an       *)
(* exception, and every call after such a call throws Runtime and leaves   *)
(* the Chunk Exposure's pixels as they were.                               *)
C6_MarkerOnSuccess ==
    Called =>
        /\ (outcome.kind = "return") <=> (Marked(chunkExposure) /\ ~Marked(entry.chunk))
        /\ returnedBefore =>
              (outcome = Throw("Runtime", 94) /\ chunkExposure.pix = entry.chunk.pix)

(* C7: after a call that passes validation, the Chunk Exposure's mask is   *)
(* flagged at every position where the master flat's sample is zero.       *)
C7_ZeroSampleFlagged ==
    PassedValidation =>
        \A i \in DOMAIN masterChunkExposure.pix :
            IsZero(masterChunkExposure.pix[i]) => chunkExposure.mask[i] # 0

(* C8: the master's own metadata decides the normalization: a call that    *)
(* passes validation leaves the master undivided by its mean when the      *)
(* master carries normalizeKey and divided by its mean when it does not,   *)
(* whatever the Chunk Exposure's metadata holds.                           *)
C8_NormalizeByMasterKey ==
    (PassedValidation /\ ~IsZero(Mean(entry.master))) =>
        masterChunkExposure.pix = DescribedMaster.pix

(* C9: chunkType selects the region check: "ccd" compares CCDID and never  *)
(* looks up AMPID; any value other than "amp" and "ccd" looks up neither   *)
(* and cannot end in RangeError or in the NotFound of a region id.         *)
C9_ChunkTypeSelects ==
    (Called /\ ~Marked(entry.chunk) /\ SameSize(entry.chunk, entry.master)) =>
        /\ ChunkType = "ccd" =>
              /\ ~LookedUp("AMPID")
              /\ (BothCarry("CCDID") /\ Differ("CCDID")) => outcome.name = "RangeError"
        /\ ChunkType \notin {"amp", "ccd"} =>
              /\ ~LookedUp("AMPID") /\ ~LookedUp("CCDID")
              /\ outcome.name # "RangeError"
              /\ outcome.line \notin 110..163

(* C10: a call that passes validation with a master free of zero samples   *)
(* ends at the end of the body with the master scaled by stretchFactor     *)
(* and, when nonzero, by flatFieldScale, the Chunk Exposure divided once   *)
(* by that master and ISR_FLATCOR added; a constant-2 unnormalized master  *)
(* with stretchFactor 1 and flatFieldScale 0 ends constant 1 and leaves a  *)
(* constant Chunk Exposure's pixels at their value.                        *)
C10_CorrectionArithmetic ==
    (/\ PassedValidation
     /\ \A i \in DOMAIN entry.master.pix : ~IsZero(entry.master.pix[i])) =>
        /\ outcome = Return("end", 294)
        /\ masterChunkExposure.pix = DescribedMaster.pix
        /\ chunkExposure.pix = DivideByExposure(entry.chunk, DescribedMaster).pix
        /\ Marked(chunkExposure)

====
